---- MODULE Spec2Model ----
(***************************************************************************)
(* Model of the pupper-app backend's Bedrock validation layer              *)
(* (src/backend/app/bedrock_validator.py): the retry/backoff wrapper       *)
(* _call_bedrock_converse, the six per-field validators, the batch         *)
(* validator and the result aggregator get_cleaned_data.                   *)
(*                                                                         *)
(* Python values are modelled as tagged records [t, s, n]: t is the type   *)
(* tag, s the characters of a string (a sequence of one-character          *)
(* strings), n the number.  Confidences are carried in hundredths          *)
(* (1.0 is 100), delays in milliseconds (0.5 s is 500).                    *)
(***************************************************************************)
EXTENDS Integers, Sequences, FiniteSets, TLC

VARIABLES
    op,             \* the operation in flight: "idle", "wrapper", a field validator or "batch"
    pc,             \* the position inside the operation
    input,          \* the raw argument of the field validator in flight
    data,           \* the data mapping given to the batch validator in flight
    max_retries,    \* _call_bedrock_converse's max_retries argument
    attempt,        \* the loop variable of `for attempt in range(max_retries)`
    calls,          \* invoke_model calls made by the operation in flight
    wrapperCalls,   \* _call_bedrock_converse calls made by the operation in flight
    sleeps,         \* the time.sleep delays of the operation in flight, in ms, in order
    trace,          \* what the external service did on each invoke_model call, in order
    response,       \* the response_body the wrapper returned
    error,          \* the exception the wrapper raised ("" when none)
    results,        \* the operation's return value: field name -> ValidationResult
    escaped,        \* the exception that left the validator ("" when none)
    validation_results, \* get_cleaned_data's argument
    cleaned_data,   \* get_cleaned_data's return value
    aggDone,        \* whether get_cleaned_data has run on validation_results
    dogs,           \* the dogs table: dog_id -> [wags, growls]
    user_wags,      \* the user_wags table: rows [id, user_id, dog_id, type]
    nextId,         \* the next primary key of user_wags
    reqs,           \* the engagement requests being handled: slot -> request
    limit,          \* how many engagement requests the server handles at a time
    budget,         \* how many more engagement requests arrive
    last,           \* the two engagement requests that completed last, the latest first
    sub,            \* the submission a create or validation endpoint handles
    cpc,            \* where that endpoint's handler stands
    s3,             \* the objects of the bucket: [dog_id, key]
    dog_table,      \* the rows the create endpoints inserted: [dog_id, species]
    reply,          \* the endpoint's response: [status, error]
    submitted,      \* how many submissions have arrived
    logged,         \* what log_validation_results did: [ran, raised, lines]
    breeds,         \* the breeds table: rows [id, name]
    breed_id,       \* the breed_id column of the dogs table: dog_id -> breed id or NoBreed
    gate,           \* the request at the authentication dependency of an endpoint
    bearer          \* the status HTTPBearer answers a request without credentials with

vars == <<op, pc, input, data, max_retries, attempt, calls, wrapperCalls, sleeps, trace,
          response, error, results, escaped,
          validation_results, cleaned_data, aggDone,
          dogs, user_wags, nextId, reqs, limit, budget, last,
          sub, cpc, s3, dog_table, reply, submitted,
          logged, breeds, breed_id, gate, bearer>>

valVars == <<op, pc, input, data, max_retries, attempt, calls, wrapperCalls, sleeps, trace,
             response, error, results, escaped>>

aggVars == <<validation_results, cleaned_data, aggDone>>

engVars == <<dogs, user_wags, nextId, reqs, limit, budget, last>>

admVars == <<sub, cpc, s3, dog_table, reply, submitted>>

logVars == <<logged>>

brVars == <<breeds, breed_id, gate, bearer>>

\* what the validation layer's steps leave alone
nonValVars == <<aggVars, engVars, admVars, logVars, brVars>>

\* what get_cleaned_data leaves alone
nonAggVars == <<valVars, engVars, admVars, logVars, brVars>>

\* what the engagement handlers leave alone
nonEngVars == <<valVars, aggVars, admVars, logVars, brVars>>

----------------------------------------------------------------------------
(* Bounds of the model *)

\* the largest max_retries a direct caller of the wrapper passes
MaxRetriesArg == 6

\* how many of the batch's fields vary independently of the others
MaxBatchVary == 1

\* how many field names get_cleaned_data's argument ranges over
MaxAggFields == 3

----------------------------------------------------------------------------
(* Python values *)

Py(t, s, n) == [t |-> t, s |-> s, n |-> n]

None == Py("none", <<>>, 0)

\* the absence of a key in a mapping (what dict.get answers with its default)
Missing == Py("missing", <<>>, 0)

PyStr(s) == Py("str", s, 0)

PyNum(n) == Py("num", <<>>, n)

PyBool(b) == Py("bool", <<>>, IF b THEN 1 ELSE 0)

PyDate(s) == Py("date", s, 0)

\* Python's truth value of a value
Truthy(v) ==
    CASE v.t = "none" -> FALSE
      [] v.t = "missing" -> FALSE
      [] v.t = "str" -> v.s # <<>>
      [] v.t = "num" -> v.n # 0
      [] v.t = "bool" -> v.n = 1
      [] OTHER -> TRUE

Whitespace == {" ", "\t", "\n"}

RECURSIVE LStrip(_)
LStrip(s) == IF s # <<>> /\ Head(s) \in Whitespace THEN LStrip(Tail(s)) ELSE s

RECURSIVE RStrip(_)
RStrip(s) ==
    IF s # <<>> /\ s[Len(s)] \in Whitespace THEN RStrip(SubSeq(s, 1, Len(s) - 1)) ELSE s

\* str.strip()
Strip(s) == RStrip(LStrip(s))

DigitChars == <<"0", "1", "2", "3", "4", "5", "6", "7", "8", "9">>

RECURSIVE NatToStr(_)
NatToStr(n) ==
    IF n < 10 THEN <<DigitChars[n + 1]>>
    ELSE NatToStr(n \div 10) \o <<DigitChars[(n % 10) + 1]>>

\* str(x) of a non-null value: a string is itself, a number its decimal digits
Str(v) ==
    CASE v.t = "str" -> v.s
      [] v.t = "num" -> IF v.n < 0 THEN <<"-">> \o NatToStr(0 - v.n) ELSE NatToStr(v.n)
      [] v.t = "bool" -> IF v.n = 1 THEN <<"True">> ELSE <<"False">>
      [] OTHER -> <<v.t>>

----------------------------------------------------------------------------
(* ValidationResult *)

VR(value, is_valid, original_value, confidence, error_message, warnings, model_used) ==
    [value |-> value, is_valid |-> is_valid, original_value |-> original_value,
     confidence |-> confidence, error_message |-> error_message,
     warnings |-> warnings, model_used |-> model_used]

\* the dataclass defaults: confidence 0.0, no error_message, no warnings, no model_used
DefaultConfidence == PyNum(0)

ModelUsed == PyStr(<<"Claude 3.7 Sonnet">>)

\* ValidationResult(None, True, None, confidence=1.0)
NullResult == VR(None, PyBool(TRUE), None, PyNum(100), None, <<>>, None)

\* dict.get(key, default) on a member that may be absent
Get(member, default) == IF member = Missing THEN default ELSE member

NoResults == [f \in {} |-> NullResult]

----------------------------------------------------------------------------
(* The external model's replies *)

\* the object a field validator's prompt asks for: the cleaned value under the
\* validator's own key (weight, date, state, color, breed, text), confidence,
\* explanation and is_valid; t tells what the reply text parses to
FieldDoc(t, value, is_valid, confidence, explanation) ==
    [t |-> t, value |-> value, is_valid |-> is_valid, confidence |-> confidence,
     explanation |-> explanation]

ValidDate == <<"2", "0", "2", "3", "-", "1", "2", "-", "2", "5">>

BadDate == <<"2", "0", "2", "3", "-", "0", "2", "-", "3", "0">>

ReplyValues == {Missing, None, PyStr(ValidDate), PyStr(BadDate), PyNum(3250)}

ReplyIsValid == {Missing, PyBool(TRUE), PyBool(FALSE)}

ReplyConfidence == {Missing, None, PyNum(50), PyNum(90)}

ReplyExplanation == {Missing, PyStr(<<>>), PyStr(<<"converted">>)}

\* reply texts that are not a JSON object: not JSON at all, or JSON null, an
\* array, a string, a number
NonObjectDocs ==
    {FieldDoc(t, Missing, Missing, Missing, Missing) :
        t \in {"notjson", "none", "list", "str", "num"}}

ObjectDocs ==
    {FieldDoc("dict", v, i, c, e) :
        v \in ReplyValues, i \in ReplyIsValid, c \in ReplyConfidence, e \in ReplyExplanation}

\* a response_body: shape says whether response['content'][0]['text'] is there,
\* fence whether the text is wrapped in Markdown code-fence markers, doc what the
\* text inside holds
Resp(shape, fence, doc) == [shape |-> shape, fence |-> fence, doc |-> doc]

NoDoc == FieldDoc("notjson", Missing, Missing, Missing, Missing)

NoResponse == Resp("none", FALSE, NoDoc)

BrokenResponses == {Resp(sh, FALSE, NoDoc) : sh \in {"no_content", "empty_content"}}

FieldResponses ==
    BrokenResponses \cup {Resp("ok", f, d) : f \in BOOLEAN, d \in NonObjectDocs \cup ObjectDocs}

\* the field list of the success path's loop
BatchFieldSeq ==
    <<"name", "shelter_name", "city", "state", "species", "description", "color",
      "weight", "birthday", "shelter_entry_date">>

BatchFields == {BatchFieldSeq[i] : i \in 1..Len(BatchFieldSeq)}

\* a key a caller may pass that is none of the ten
ExtraKey == "extra"

\* the fields whose input and sub-result vary on their own; the other fields
\* of a record all share one input and one sub-result
VaryOrder ==
    <<"species", "weight", "name", "state", "color", "birthday", "city",
      "shelter_name", "description", "shelter_entry_date">>

VaryFields == {VaryOrder[i] : i \in 1..MaxBatchVary}

\* what a caller puts under a key: nothing (key absent), null, or a raw string
DataOptions == {Missing, None, PyStr(<<" ", "L", "a", "b", " ">>)}

\* the data mappings: every varying field its own option, the rest one option,
\* with or without the extra key
BatchInputs ==
    {[k \in {f \in BatchFields :
                (IF f \in VaryFields THEN own[f] ELSE rest) # Missing}
            \cup (IF extra THEN {ExtraKey} ELSE {})
        |-> IF k = ExtraKey THEN PyStr(<<"x">>)
            ELSE IF k \in VaryFields THEN own[k] ELSE rest] :
        own \in [VaryFields -> DataOptions], rest \in DataOptions, extra \in BOOLEAN}

EmptyDict == FieldDoc("dict", Missing, Missing, Missing, Missing)

\* the sub-result of one field in the reply: absent, not an object (null, a
\* string), or an object {value, is_valid, confidence, explanation}
SubDocs ==
    {FieldDoc("missing", Missing, Missing, Missing, Missing),
     FieldDoc("none", Missing, Missing, Missing, Missing),
     FieldDoc("str", Missing, Missing, Missing, Missing),
     EmptyDict,
     FieldDoc("dict", PyStr(<<"L", "a", "b">>), PyBool(TRUE), PyNum(90), PyStr(<<"converted">>)),
     FieldDoc("dict", None, PyBool(FALSE), PyNum(50), Missing),
     FieldDoc("dict", None, PyBool(TRUE), None, PyStr(<<>>)),
     FieldDoc("dict", PyNum(3250), PyBool(FALSE), PyNum(90), PyStr(<<"converted">>))}

BatchDoc(t, fields) == [t |-> t, fields |-> fields]

BatchObjectDocs ==
    {BatchDoc("dict", [f \in BatchFields |-> IF f \in VaryFields THEN own[f] ELSE rest]) :
        own \in [VaryFields -> SubDocs], rest \in SubDocs}

BatchNonObjectDocs ==
    {BatchDoc(t, [f \in BatchFields |-> EmptyDict]) : t \in {"notjson", "none", "list"}}

BatchResponses ==
    {Resp(sh, FALSE, BatchDoc("notjson", [f \in BatchFields |-> EmptyDict])) :
        sh \in {"no_content", "empty_content"}}
    \cup {Resp("ok", f, d) : f \in BOOLEAN, d \in BatchObjectDocs \cup BatchNonObjectDocs}

----------------------------------------------------------------------------
(* _call_bedrock_converse: the retry/backoff wrapper *)

DefaultMaxRetries == 5

BaseDelayMs == 500

\* what one invoke_model call (with the read and json.loads of its body) can do
ServiceOutcomes == {"ok", "ThrottlingException", "ClientError", "JSONDecodeError"}

\* a loop that stops one attempt early
InRange_OneShort(a, m) == a < m - 1

\* a loop that runs one attempt too many
InRange_Inclusive(a, m) == a <= m

\* for attempt in range(max_retries): whether the loop body runs for this attempt
InRange(a, m) == a < m

\* a linear backoff
Wait_Linear(a) == BaseDelayMs * (a + 1)

\* wait = 0.5 * (2 ** attempt), in ms
Wait(a) == BaseDelayMs * (2 ^ a)

\* every exception handled as throttling
ExceptHandler_RetryAll(exc) == "sleep"

\* the except clauses: ThrottlingException sleeps and loops, any other Exception is re-raised
ExceptHandler(exc) == IF exc = "ThrottlingException" THEN "sleep" ELSE "raised"

MaxRetriesExceeded == "Exception: Bedrock API throttling: max retries exceeded"

\* the wrapper's entry: the loop starts at attempt 0
EnterWrapper(m) ==
    /\ max_retries' = m
    /\ attempt' = 0
    /\ wrapperCalls' = wrapperCalls + 1
    /\ pc' = "loop"

\* a caller other than the validators (any max_retries)
StartWrapper ==
    /\ op = "idle"
    /\ \E m \in 0..MaxRetriesArg : EnterWrapper(m)
    /\ op' = "wrapper"
    /\ UNCHANGED <<input, data, calls, sleeps, trace, response, error, results, escaped>>
    /\ UNCHANGED nonValVars

ResponsesFor(o) == IF o = "batch" THEN BatchResponses ELSE FieldResponses

\* one pass of the try block: invoke_model, read and parse the body, return it,
\* or land in one of the except clauses
Invoke ==
    /\ pc = "loop"
    /\ InRange(attempt, max_retries)
    /\ calls' = calls + 1
    /\ \E out \in ServiceOutcomes :
        /\ trace' = Append(trace, out)
        /\ IF out = "ok"
           THEN /\ \E r \in ResponsesFor(op) : response' = r
                /\ pc' = "returned"
                /\ error' = error
           ELSE /\ response' = response
                /\ pc' = ExceptHandler(out)
                /\ error' = IF ExceptHandler(out) = "raised" THEN out ELSE error
    /\ UNCHANGED <<op, input, data, max_retries, attempt, wrapperCalls, sleeps, results, escaped>>
    /\ UNCHANGED nonValVars

\* the ThrottlingException clause: time.sleep(wait), then the next iteration
Sleep ==
    /\ pc = "sleep"
    /\ sleeps' = Append(sleeps, Wait(attempt))
    /\ attempt' = attempt + 1
    /\ pc' = "loop"
    /\ UNCHANGED <<op, input, data, max_retries, calls, wrapperCalls, trace, response, error,
                   results, escaped>>
    /\ UNCHANGED nonValVars

\* the loop is over: raise Exception("Bedrock API throttling: max retries exceeded")
Exhaust ==
    /\ pc = "loop"
    /\ ~InRange(attempt, max_retries)
    /\ pc' = "raised"
    /\ error' = MaxRetriesExceeded
    /\ UNCHANGED <<op, input, data, max_retries, attempt, calls, wrapperCalls, sleeps, trace,
                   response, results, escaped>>
    /\ UNCHANGED nonValVars

----------------------------------------------------------------------------
(* The field validators: clean_weight, clean_date, clean_state, clean_color,
   validate_dog_breed, clean_text_field *)

FieldKinds == {"weight", "date", "state", "color", "breed", "text"}

\* raw arguments: null, a clean string, a string with surrounding whitespace, a number
RawInputs ==
    {None, PyStr(<<"3", "2">>), PyStr(<<" ", "3", "2", "\n">>), PyNum(32)}

\* a null check that tests for the empty string instead of None
ShortCircuit_EmptyOnly(x) == x.t = "str" /\ x.s = <<>>

\* `if x_input is None: return ValidationResult(None, True, None, confidence=1.0)`
ShortCircuit(x) == x = None

\* original_value = str(x_input).strip()
OriginalValue(x) == PyStr(Strip(Str(x)))

\* an except clause that names json.JSONDecodeError only
Catches_JsonOnly(exc) == exc = "JSONDecodeError"

\* `except Exception as e` around the call and the parse
Catches(exc) == TRUE

\* the prefix of the error_message each validator's except clause writes
FailurePrefix(kind) ==
    CASE kind \in {"weight", "date", "state", "color"} -> "Bedrock parsing failed: "
      [] kind = "breed" -> "Bedrock validation failed: "
      [] kind = "text" -> "Bedrock cleaning failed: "
      [] OTHER -> "Bedrock batch validation failed: "

\* the ValidationResult of an except clause
FailedResult(kind, original_value, exc) ==
    VR(None, PyBool(FALSE), original_value, DefaultConfidence,
       PyStr(<<FailurePrefix(kind), exc>>), <<>>, None)

\* content = response['content'][0]['text']: the exception it raises, "" when none
ContentError(resp) ==
    CASE resp.shape = "no_content" -> "KeyError"
      [] resp.shape = "empty_content" -> "IndexError"
      [] OTHER -> ""

\* json.loads(content): the exception it raises, "" when none.  The text is parsed
\* as it came: code-fence markers around it are not JSON
JsonLoadsError(resp) ==
    IF resp.fence \/ resp.doc.t = "notjson" THEN "JSONDecodeError" ELSE ""

\* result.get(...) on what json.loads returned: only an object has get
GetError(doc) == IF doc.t = "dict" THEN "" ELSE "AttributeError"

IsDigit(c) == \E i \in 1..10 : DigitChars[i] = c

DigitVal(c) == (CHOOSE i \in 1..10 : DigitChars[i] = c) - 1

RECURSIVE StrToNat(_)
StrToNat(s) ==
    IF s = <<>> THEN 0 ELSE 10 * StrToNat(SubSeq(s, 1, Len(s) - 1)) + DigitVal(s[Len(s)])

AllDigits(s) == \A i \in 1..Len(s) : IsDigit(s[i])

IsLeap(y) == (y % 4 = 0 /\ y % 100 # 0) \/ y % 400 = 0

DaysIn(m, y) ==
    CASE m = 2 -> IF IsLeap(y) THEN 29 ELSE 28
      [] m \in {4, 6, 9, 11} -> 30
      [] OTHER -> 31

\* whether datetime.strptime(s, '%Y-%m-%d') accepts s: four digits, '-', a month
\* of one or two digits, '-', a day of one or two digits, naming a real date
StrptimeOk(s) ==
    /\ Len(s) >= 8
    /\ AllDigits(SubSeq(s, 1, 4))
    /\ s[5] = "-"
    /\ \E p \in 7..8 :
        /\ p < Len(s)
        /\ s[p] = "-"
        /\ LET ms == SubSeq(s, 6, p - 1)
               ds == SubSeq(s, p + 1, Len(s))
           IN  /\ AllDigits(ms)
               /\ Len(ds) \in 1..2
               /\ AllDigits(ds)
               /\ StrToNat(ms) \in 1..12
               /\ StrToNat(ds) \in 1..DaysIn(StrToNat(ms), StrToNat(SubSeq(s, 1, 4)))

\* the warnings argument: [explanation] if explanation else []
WarningsOf(doc) ==
    IF Truthy(Get(doc.explanation, PyStr(<<>>))) THEN <<doc.explanation>> ELSE <<>>

\* the ValidationResult built from a parsed object (all validators but the date's)
ParsedResult(doc, original_value) ==
    VR(Get(doc.value, None), Get(doc.is_valid, PyBool(FALSE)), original_value,
       Get(doc.confidence, DefaultConfidence), None, WarningsOf(doc), ModelUsed)

\* clean_date_with_bedrock's conversion of result['date']: the exception that
\* leaves the inner try ("" when none); a non-string date makes strptime raise
\* TypeError, which the inner `except ValueError` does not catch
DateError(doc) ==
    IF Truthy(Get(doc.value, None)) /\ doc.value.t # "str" THEN "TypeError" ELSE ""

\* the date validator's result: parsed_date is the date when strptime accepts
\* it; on ValueError result['is_valid'] is set to False and parsed_date stays None
DateResult(doc, original_value) ==
    LET d == Get(doc.value, None)
        given == Truthy(d)
        good == given /\ StrptimeOk(d.s)
    IN  VR(IF good THEN PyDate(d.s) ELSE None,
           IF given /\ ~good THEN PyBool(FALSE) ELSE Get(doc.is_valid, PyBool(FALSE)),
           original_value,
           Get(doc.confidence, DefaultConfidence), None, WarningsOf(doc), ModelUsed)

\* the exception the try block of a field validator ends with, "" when it returns
FieldTryError(kind, resp) ==
    IF ContentError(resp) # "" THEN ContentError(resp)
    ELSE IF JsonLoadsError(resp) # "" THEN JsonLoadsError(resp)
    ELSE IF GetError(resp.doc) # "" THEN GetError(resp.doc)
    ELSE IF kind = "date" THEN DateError(resp.doc)
    ELSE ""

FieldTryResult(kind, resp, original_value) ==
    IF kind = "date" THEN DateResult(resp.doc, original_value)
    ELSE ParsedResult(resp.doc, original_value)

\* a field validator is called: null returns at once, anything else is
\* stringified, trimmed and sent through the wrapper
StartField ==
    /\ op = "idle"
    /\ \E kind \in FieldKinds, x \in RawInputs :
        /\ op' = kind
        /\ input' = x
        /\ IF ShortCircuit(x)
           THEN /\ results' = (kind :> NullResult)
                /\ pc' = "done"
                /\ UNCHANGED <<max_retries, attempt, wrapperCalls>>
           ELSE /\ results' = results
                /\ EnterWrapper(DefaultMaxRetries)
    /\ UNCHANGED <<data, calls, sleeps, trace, response, error, escaped>>
    /\ UNCHANGED nonValVars

\* the wrapper has returned or raised: the rest of the validator's try block,
\* or its except clause
FinishField ==
    /\ op \in FieldKinds
    /\ pc \in {"returned", "raised"}
    /\ LET exc == IF pc = "raised" THEN error ELSE FieldTryError(op, response)
           orig == OriginalValue(input)
       IN  IF exc = ""
           THEN /\ results' = (op :> FieldTryResult(op, response, orig))
                /\ escaped' = escaped
           ELSE IF Catches(exc)
           THEN /\ results' = (op :> FailedResult(op, orig, exc))
                /\ escaped' = escaped
           ELSE /\ results' = results
                /\ escaped' = exc
    /\ pc' = "done"
    /\ UNCHANGED <<op, input, data, max_retries, attempt, calls, wrapperCalls, sleeps, trace,
                   response, error>>
    /\ UNCHANGED nonValVars

----------------------------------------------------------------------------
(* validate_dog_data_batch_with_bedrock *)

\* data.get(field)
DataGet(d, field) == IF field \in DOMAIN d THEN d[field] ELSE None

\* result.get(field, {})
FieldResultOf(doc, field) ==
    IF doc.fields[field].t = "missing" THEN EmptyDict ELSE doc.fields[field]

\* a return before the call when no field holds a value
BatchReturnsEarly_AllNull(d) == \A k \in DOMAIN d : d[k] = None

\* nothing precedes the call that could return without making it
BatchReturnsEarly(d) == FALSE

\* the loop of the success path from its i-th field on: the exception it ends
\* with ("" when none) and the results built so far
RECURSIVE BatchLoop(_, _, _, _)
BatchLoop(doc, d, i, out) ==
    IF i > Len(BatchFieldSeq) THEN [exc |-> "", out |-> out]
    ELSE LET field == BatchFieldSeq[i]
             field_result == FieldResultOf(doc, field)
         IN  IF GetError(field_result) # ""
             THEN [exc |-> GetError(field_result), out |-> out]
             ELSE BatchLoop(doc, d, i + 1,
                            out @@ (field :> ParsedResult(field_result, DataGet(d, field))))

\* the exception the batch's try block ends with after the wrapper returned
BatchTryError(resp, d) ==
    IF ContentError(resp) # "" THEN ContentError(resp)
    ELSE IF JsonLoadsError(resp) # "" THEN JsonLoadsError(resp)
    ELSE IF GetError(resp.doc) # "" THEN GetError(resp.doc)
    ELSE BatchLoop(resp.doc, d, 1, NoResults).exc

\* a fallback that reports the null inputs as valid absences
BatchFallback_NullsValid(d, exc) ==
    [field \in DOMAIN d |->
        IF d[field] = None THEN NullResult ELSE FailedResult("batch", d[field], exc)]

\* the except clause: every key of data marked invalid with the one message
BatchFallback(d, exc) ==
    [field \in DOMAIN d |-> FailedResult("batch", d[field], exc)]

\* the batch validator is called with a data mapping
StartBatch ==
    /\ op = "idle"
    /\ \E d \in BatchInputs :
        /\ data' = d
        /\ IF BatchReturnsEarly(d)
           THEN /\ results' = [field \in DOMAIN d |-> NullResult]
                /\ pc' = "done"
                /\ UNCHANGED <<max_retries, attempt, wrapperCalls>>
           ELSE /\ results' = results
                /\ EnterWrapper(DefaultMaxRetries)
    /\ op' = "batch"
    /\ UNCHANGED <<input, calls, sleeps, trace, response, error, escaped>>
    /\ UNCHANGED nonValVars

\* the wrapper has returned or raised: the loop over the ten fields, or the fallback
FinishBatch ==
    /\ op = "batch"
    /\ pc \in {"returned", "raised"}
    /\ LET exc == IF pc = "raised" THEN error ELSE BatchTryError(response, data)
       IN  IF exc = ""
           THEN /\ results' = BatchLoop(response.doc, data, 1, NoResults).out
                /\ escaped' = escaped
           ELSE IF Catches(exc)
           THEN /\ results' = BatchFallback(data, exc)
                /\ escaped' = escaped
           ELSE /\ results' = results
                /\ escaped' = exc
    /\ pc' = "done"
    /\ UNCHANGED <<op, input, data, max_retries, attempt, calls, wrapperCalls, sleeps, trace,
                   response, error>>
    /\ UNCHANGED nonValVars

\* what a field validator hands back for a non-null argument, given how the
\* wrapper ended (err, "" when it returned resp): the exception that leaves the
\* validator ("" when none) and the result
FieldReturn(kind, x, err, resp) ==
    LET exc == IF err # "" THEN err ELSE FieldTryError(kind, resp)
        orig == OriginalValue(x)
    IN  IF exc = "" THEN [escaped |-> "", results |-> (kind :> FieldTryResult(kind, resp, orig))]
        ELSE IF Catches(exc)
        THEN [escaped |-> "", results |-> (kind :> FailedResult(kind, orig, exc))]
        ELSE [escaped |-> exc, results |-> NoResults]

\* what the batch validator hands back, given how the wrapper ended
BatchReturn(d, err, resp) ==
    LET exc == IF err # "" THEN err ELSE BatchTryError(resp, d)
    IN  IF exc = ""
        THEN [escaped |-> "", results |-> BatchLoop(resp.doc, d, 1, NoResults).out]
        ELSE IF Catches(exc) THEN [escaped |-> "", results |-> BatchFallback(d, exc)]
        ELSE [escaped |-> exc, results |-> NoResults]

----------------------------------------------------------------------------
(* get_cleaned_data *)

\* a filter on the truth value of the cleaned value
Kept_Truthy(result) == Truthy(result.is_valid) /\ Truthy(result.value)

\* the fields kept: `if result.is_valid and result.value is not None`
Kept(result) == Truthy(result.is_valid) /\ result.value # None

get_cleaned_data(vrs) ==
    [field \in {f \in DOMAIN vrs : Kept(vrs[f])} |-> vrs[field].value]

NoData == [f \in {} |-> None]

AggFields == {BatchFieldSeq[i] : i \in 1..MaxAggFields}

\* the results a mapping may hold: valid or not, with a null value, an empty
\* string, a zero, or a text
AggResults ==
    {VR(v, i, PyStr(<<"r", "a", "w">>), PyNum(90), e, <<>>, ModelUsed) :
        v \in {None, PyStr(<<>>), PyNum(0), PyStr(<<"L", "a", "b">>)},
        i \in {PyBool(TRUE), PyBool(FALSE)},
        e \in {None}}

AggInputs == UNION {[ks -> AggResults] : ks \in SUBSET AggFields}

GetCleanedData ==
    /\ ~aggDone
    /\ cleaned_data' = get_cleaned_data(validation_results)
    /\ aggDone' = TRUE
    /\ UNCHANGED validation_results
    /\ UNCHANGED nonAggVars

----------------------------------------------------------------------------
(* Engagement: wag_dog, unwag_dog, growl_dog and ungrowl_dog *)

\* how many requests arrive when they are handled one at a time
MaxSeqRequests == 3

\* how many requests arrive when two may be handled at once
MaxConcRequests == 3

\* how far a stored counter may start from the number of its rows
MaxStoredCount == 1

Slots == {1, 2}

\* the `sub` claims of the callers, and a token without one
Subs == {"u1", "u2"}

NoSub == ""

Callers == Subs \cup {NoSub}

\* the dog the table holds, and an id it does not hold
StoredDog == "d1"

UnknownDog == "d0"

DogIds == {StoredDog, UnknownDog}

EngageKinds == {"wag", "unwag", "growl", "ungrowl"}

\* the row type a handler adds or removes, and the counter it moves
TypeOf(kind) == IF kind \in {"wag", "unwag"} THEN "wag" ELSE "growl"

Adds(kind) == kind \in {"wag", "growl"}

\* a query for the caller's row that also asks for the handler's own type
ExistingAction_SameType(rows, kind, user_id, dog_id) ==
    {r \in rows : r.user_id = user_id /\ r.dog_id = dog_id /\ r.type = TypeOf(kind)}

\* a query that in wag and growl asks only for a row of the other type
ExistingAction_OtherType(rows, kind, user_id, dog_id) ==
    IF Adds(kind)
    THEN {r \in rows : r.user_id = user_id /\ r.dog_id = dog_id /\ r.type # TypeOf(kind)}
    ELSE {r \in rows : r.user_id = user_id /\ r.dog_id = dog_id /\ r.type = TypeOf(kind)}

\* the rows the handler's query matches: wag and growl ask for any row of the
\* caller on the dog, unwag and ungrowl for a row of their own type
ExistingAction(rows, kind, user_id, dog_id) ==
    IF Adds(kind)
    THEN {r \in rows : r.user_id = user_id /\ r.dog_id = dog_id}
    ELSE {r \in rows : r.user_id = user_id /\ r.dog_id = dog_id /\ r.type = TypeOf(kind)}

\* a decrement without the floor
NewCount_NoFloor(kind, n) == IF Adds(kind) THEN n + 1 ELSE n - 1

\* `dog.wags += 1` and `dog.wags = max(0, dog.wags - 1)`
NewCount(kind, n) ==
    IF Adds(kind) THEN n + 1
    ELSE IF n - 1 > 0 THEN n - 1 ELSE 0

\* the detail of the 400 a wag or growl gets when the caller has a row already
ConflictDetail(kind, rowType) ==
    IF rowType = TypeOf(kind) THEN "already " \o TypeOf(kind)
    ELSE "already " \o rowType \o ", cannot " \o TypeOf(kind)

\* the detail of the 400 an unwag or ungrowl gets when there is no row to remove
AbsentDetail(kind) == "no " \o TypeOf(kind) \o " to remove"

FreeReq ==
    [kind |-> "", user_id |-> "", dog_id |-> "", pc |-> "free",
     wags |-> 0, growls |-> 0, existing |-> 0, status |-> 0, detail |-> ""]

NewReq(kind, user_id, dog_id) ==
    [FreeReq EXCEPT !.kind = kind, !.user_id = user_id, !.dog_id = dog_id, !.pc = "dog"]

\* no request has completed yet
NoRec ==
    [kind |-> "", user_id |-> "", dog_id |-> "", status |-> 0, wags |-> 0, growls |-> 0]

NoLast == <<NoRec, NoRec>>

\* the latest completed request, and the one before it
Remember(rec, history) == <<rec, history[1]>>

InFlight == {i \in Slots : reqs[i].pc \in {"dog", "query", "write"}}

\* the reply leaves: the request is over, and is the last one completed. The
\* record keeps the counters the table held when the handler's last step began.
Reply(i, status, detail) ==
    /\ reqs' = [reqs EXCEPT ![i].pc = "done", ![i].status = status, ![i].detail = detail]
    /\ last' = Remember([kind |-> reqs[i].kind, user_id |-> reqs[i].user_id,
                         dog_id |-> reqs[i].dog_id, status |-> status,
                         wags |-> dogs[StoredDog].wags, growls |-> dogs[StoredDog].growls],
                        last)

\* a request reaches one of the four handlers
Arrive(i) ==
    /\ budget > 0
    /\ Cardinality(InFlight) < limit
    /\ i \notin InFlight
    /\ \A j \in Slots : j < i => j \in InFlight
    /\ \E kind \in EngageKinds, user_id \in Callers, dog_id \in DogIds :
        reqs' = [reqs EXCEPT ![i] = NewReq(kind, user_id, dog_id)]
    /\ budget' = budget - 1
    /\ UNCHANGED <<dogs, user_wags, nextId, limit, last>>
    /\ UNCHANGED nonEngVars

\* `dog = db.query(Dog).filter(Dog.id == dog_id).first()`, the 404 when there
\* is none, and in wag and growl the 400 when the token has no `sub`
LoadDog(i) ==
    /\ reqs[i].pc = "dog"
    /\ IF reqs[i].dog_id \notin DOMAIN dogs
       THEN Reply(i, 404, "Dog not found")
       ELSE IF Adds(reqs[i].kind) /\ reqs[i].user_id = NoSub
       THEN Reply(i, 400, "User ID not found")
       ELSE /\ reqs' = [reqs EXCEPT ![i].pc = "query",
                                    ![i].wags = dogs[reqs[i].dog_id].wags,
                                    ![i].growls = dogs[reqs[i].dog_id].growls]
            /\ UNCHANGED last
    /\ UNCHANGED <<dogs, user_wags, nextId, limit, budget>>
    /\ UNCHANGED nonEngVars

\* `db.query(UserWag).filter(...).first()` and the 400 that follows it: a wag
\* or growl is refused when a row is found, an unwag or ungrowl when none is
QueryRow(i) ==
    /\ reqs[i].pc = "query"
    /\ LET found == ExistingAction(user_wags, reqs[i].kind, reqs[i].user_id, reqs[i].dog_id)
       IN  IF Adds(reqs[i].kind)
           THEN IF found = {}
                THEN /\ reqs' = [reqs EXCEPT ![i].pc = "write"]
                     /\ UNCHANGED last
                ELSE \E r \in found : Reply(i, 400, ConflictDetail(reqs[i].kind, r.type))
           ELSE IF found = {}
                THEN Reply(i, 400, AbsentDetail(reqs[i].kind))
                ELSE /\ \E r \in found :
                        reqs' = [reqs EXCEPT ![i].pc = "write", ![i].existing = r.id]
                     /\ UNCHANGED last
    /\ UNCHANGED <<dogs, user_wags, nextId, limit, budget>>
    /\ UNCHANGED nonEngVars

\* a removal that lowers both counters
Written_Both(req) ==
    IF Adds(req.kind)
    THEN IF TypeOf(req.kind) = "wag"
         THEN [wags |-> NewCount(req.kind, req.wags), growls |-> dogs[req.dog_id].growls]
         ELSE [wags |-> dogs[req.dog_id].wags, growls |-> NewCount(req.kind, req.growls)]
    ELSE [wags |-> NewCount(req.kind, req.wags), growls |-> NewCount(req.kind, req.growls)]

\* the counter the handler writes back, computed from the value it loaded
Written(req) ==
    IF TypeOf(req.kind) = "wag"
    THEN [wags |-> NewCount(req.kind, req.wags), growls |-> dogs[req.dog_id].growls]
    ELSE [wags |-> dogs[req.dog_id].wags, growls |-> NewCount(req.kind, req.growls)]

\* a removal that leaves the row in the table
RowsAfter_KeepsRow(rows, req, id) ==
    IF Adds(req.kind)
    THEN rows \cup {[id |-> id, user_id |-> req.user_id, dog_id |-> req.dog_id,
                     type |-> TypeOf(req.kind)]}
    ELSE rows

\* `db.add(UserWag(...))` in wag and growl, `db.delete(existing_wag)` in unwag
\* and ungrowl
RowsAfter(rows, req, id) ==
    IF Adds(req.kind)
    THEN rows \cup {[id |-> id, user_id |-> req.user_id, dog_id |-> req.dog_id,
                     type |-> TypeOf(req.kind)]}
    ELSE {r \in rows : r.id # req.existing}

\* the counter update, the `db.add` or `db.delete`, and `db.commit()`
Commit(i) ==
    /\ reqs[i].pc = "write"
    /\ dogs' = [dogs EXCEPT ![reqs[i].dog_id] = Written(reqs[i])]
    /\ user_wags' = RowsAfter(user_wags, reqs[i], nextId)
    /\ nextId' = IF Adds(reqs[i].kind) THEN nextId + 1 ELSE nextId
    /\ Reply(i, 200, "ok")
    /\ UNCHANGED <<limit, budget>>
    /\ UNCHANGED nonEngVars

NoReqs == [i \in Slots |-> FreeReq]

\* no engagement request is handled
EngIdle ==
    /\ dogs = (StoredDog :> [wags |-> 0, growls |-> 0])
    /\ user_wags = {}
    /\ nextId = 1
    /\ reqs = NoReqs
    /\ limit = 0
    /\ budget = 0
    /\ last = NoLast

\* the rows of a table in which each caller has at most one row on the dog
StoredRows(choice) ==
    LET first == IF choice["u1"] = "none" THEN {}
                 ELSE {[id |-> 1, user_id |-> "u1", dog_id |-> StoredDog, type |-> choice["u1"]]}
        second == IF choice["u2"] = "none" THEN {}
                  ELSE {[id |-> Cardinality(first) + 1, user_id |-> "u2",
                         dog_id |-> StoredDog, type |-> choice["u2"]]}
    IN  first \cup second

EngNext == \E i \in Slots : Arrive(i) \/ LoadDog(i) \/ QueryRow(i) \/ Commit(i)

----------------------------------------------------------------------------
(* Admission: the create endpoints and the validation endpoint of main.py *)

\* how many submissions arrive
MaxSubmissions == 2

CreateEndpoints ==
    {"create_with_image", "create_with_document", "create_with_generated_image"}

Endpoints == CreateEndpoints \cup {"test_validate"}

\* str.lower() on the letters the inputs hold
LowerChar(c) ==
    CASE c = "A" -> "a"
      [] c = "B" -> "b"
      [] c = "L" -> "l"
      [] c = "P" -> "p"
      [] OTHER -> c

Lower(s) == [i \in 1..Len(s) |-> LowerChar(s[i])]

\* ['labrador retriever', 'labrador', 'lab']
LabradorSet ==
    {<<"l", "a", "b", "r", "a", "d", "o", "r", " ", "r", "e", "t", "r", "i", "e", "v", "e", "r">>,
     <<"l", "a", "b", "r", "a", "d", "o", "r">>,
     <<"l", "a", "b">>}

\* the species a form may carry: absent, empty, or a text
SpeciesInputs ==
    {None, PyStr(<<>>), PyStr(<<"L", "a", "b">>), PyStr(<<" ", "L", "A", "B", "\n">>),
     PyStr(<<"L", "a", "b", "s">>), PyStr(<<"P", "u", "g">>)}

\* the species an extracted document may carry: also no key at all, or a number
ExtractedSpecies == SpeciesInputs \cup {Missing, PyNum(7)}

\* a check that accepts every text that begins with "lab"
SpeciesRejected_Prefix(species) ==
    /\ Truthy(species)
    /\ LET text == Strip(Lower(species.s))
       IN  ~(Len(text) >= 3 /\ SubSeq(text, 1, 3) = <<"l", "a", "b">>)

\* `if species and species.lower().strip() not in [...]`
SpeciesRejected(species) ==
    /\ Truthy(species)
    /\ Strip(Lower(species.s)) \notin LabradorSet

\* the uploaded picture: one Rekognition labels as a Labrador, one it labels
\* otherwise, and bytes that are no picture
Images == {"labrador", "other", "broken"}

Label(name, confidence) == [Name |-> name, Confidence |-> confidence]

\* what detect_labels answers for the picture: labels with their names and
\* their confidences in percent, none below MinConfidence=70
LabelsOf(image) ==
    IF image = "labrador"
    THEN {{Label("Dog", 99), Label("Labrador Retriever", 91)},
          {Label("Lab", 75), Label("Labrador", 82)}}
    ELSE {{Label("Dog", 99), Label("Poodle", 88)}, {}}

LowerName(name) ==
    CASE name = "Labrador Retriever" -> "labrador retriever"
      [] name = "Labrador" -> "labrador"
      [] name = "Lab" -> "lab"
      [] name = "Dog" -> "dog"
      [] name = "Poodle" -> "poodle"
      [] OTHER -> name

\* the labels whose lowered name is one of the three Labrador names
LabradorLabels(labels) ==
    {label \in labels : LowerName(label.Name) \in {"labrador retriever", "labrador", "lab"}}

\* a classification that lets the image pass when the service call raised
is_labrador_FailOpen(failed, labels) == failed \/ LabradorLabels(labels) # {}

\* classify_image_with_rekognition: a label named in the Labrador set, and
\* False when the service call raised
is_labrador(failed, labels) ==
    /\ ~failed
    /\ LabradorLabels(labels) # {}

\* `labrador_conf if is_labrador else 0.0`, in percent: the highest confidence
\* of a Labrador label, and 0.0 in the except clause
labrador_conf(failed, labels) ==
    IF is_labrador(failed, labels)
    THEN CHOOSE c \in {label.Confidence : label \in LabradorLabels(labels)} :
            \A label \in LabradorLabels(labels) : label.Confidence <= c
    ELSE 0

UploadKeys == <<"original.jpg", "resized_400.png", "thumbnail_50.png">>

\* the dog_data of test_validate_dog_data: all ten keys, each None or a text
ValidateInputs == {d \in BatchInputs : DOMAIN d = BatchFields}

\* how the batch validator's call of the wrapper may end without a reply
WrapperErrors == {"ClientError", MaxRetriesExceeded}

NoSubmission ==
    [endpoint |-> "", dog_id |-> 0, species |-> None, image |-> "", data |-> NoData,
     is_labrador |-> FALSE, confidence |-> 0, failed |-> FALSE, labels |-> {}]

NoReply == [status |-> 0, error |-> ""]

ObjectsOf(dog_id) == {o \in s3 : o.dog_id = dog_id}

Respond(code, text) ==
    /\ reply' = [status |-> code, error |-> text]
    /\ cpc' = "done"

\* a request reaches one of the endpoints; `dog_id = str(uuid4())`
Submit ==
    /\ cpc \in {"idle", "done"}
    /\ submitted < MaxSubmissions
    /\ submitted' = submitted + 1
    /\ \E endpoint \in Endpoints :
        \/ /\ endpoint \in {"create_with_image", "create_with_generated_image"}
           /\ \E species \in SpeciesInputs, image \in Images :
                sub' = [NoSubmission EXCEPT !.endpoint = endpoint, !.dog_id = submitted + 1,
                                            !.species = species, !.image = image]
           /\ cpc' = "species"
        \/ /\ endpoint = "create_with_document"
           /\ \E image \in Images :
                sub' = [NoSubmission EXCEPT !.endpoint = endpoint, !.dog_id = submitted + 1,
                                            !.image = image]
           /\ cpc' = "extract"
        \/ /\ endpoint = "test_validate"
           /\ \E d \in ValidateInputs :
                sub' = [NoSubmission EXCEPT !.endpoint = endpoint, !.dog_id = submitted + 1,
                                            !.species = d["species"], !.data = d]
           /\ cpc' = "validate"
    /\ reply' = NoReply
    /\ validation_results' = NoResults
    /\ cleaned_data' = NoData
    /\ UNCHANGED <<s3, dog_table, aggDone>>
    /\ UNCHANGED <<valVars, engVars, logVars, brVars>>

\* test_validate_dog_data: the batch validator, get_cleaned_data, and the 400
\* when the species result is there and not valid
ValidateData ==
    /\ cpc = "validate"
    /\ \E err \in {""} \cup WrapperErrors :
       \E resp \in (IF err = "" THEN BatchResponses ELSE {NoResponse}) :
        LET ret == BatchReturn(sub.data, err, resp)
        IN  IF ret.escaped # ""
            THEN /\ Respond(500, ret.escaped)
                 /\ UNCHANGED <<validation_results, cleaned_data>>
            ELSE /\ validation_results' = ret.results
                 /\ cleaned_data' = get_cleaned_data(ret.results)
                 /\ IF "species" \in DOMAIN ret.results
                        /\ ~Truthy(ret.results["species"].is_valid)
                    THEN Respond(400, "Invalid breed")
                    ELSE Respond(200, "")
    /\ UNCHANGED <<sub, s3, dog_table, submitted, aggDone>>
    /\ UNCHANGED <<valVars, engVars, logVars, brVars>>

\* create_dog_with_document: extract_text_from_document and
\* `species = dog_data.get('species', '')`
ExtractDocument ==
    /\ cpc = "extract"
    /\ \/ Respond(400, "Document extraction failed") /\ UNCHANGED sub
       \/ /\ \E species \in ExtractedSpecies :
                sub' = [sub EXCEPT !.species = Get(species, PyStr(<<>>))]
          /\ cpc' = "species"
          /\ UNCHANGED reply
    /\ UNCHANGED <<s3, dog_table, submitted, validation_results, cleaned_data, aggDone>>
    /\ UNCHANGED <<valVars, engVars, logVars, brVars>>

\* the species check of the three create endpoints; a species that is no text
\* has no lower() and the request ends in an unhandled exception
CheckSpecies ==
    /\ cpc = "species"
    /\ IF Truthy(sub.species) /\ sub.species.t # "str"
       THEN Respond(500, "AttributeError")
       ELSE IF SpeciesRejected(sub.species)
       THEN Respond(400, "Invalid breed")
       ELSE cpc' = "image" /\ UNCHANGED reply
    /\ UNCHANGED <<sub, s3, dog_table, submitted, validation_results, cleaned_data, aggDone>>
    /\ UNCHANGED <<valVars, engVars, logVars, brVars>>

\* `Image.open(...)`: caught in create_dog_with_generated_image only, which has
\* no Rekognition check after it
OpenImage ==
    /\ cpc = "image"
    /\ IF sub.image = "broken"
       THEN IF sub.endpoint = "create_with_generated_image"
            THEN Respond(400, "Invalid image data")
            ELSE Respond(500, "UnidentifiedImageError")
       ELSE /\ cpc' = (IF sub.endpoint = "create_with_generated_image"
                        THEN "upload" ELSE "rekognition")
            /\ UNCHANGED reply
    /\ UNCHANGED <<sub, s3, dog_table, submitted, validation_results, cleaned_data, aggDone>>
    /\ UNCHANGED <<valVars, engVars, logVars, brVars>>

\* `rekog_result = classify_image_with_rekognition(contents)` and the 400 when
\* the image is not classified as a Labrador
ClassifyImage ==
    /\ cpc = "rekognition"
    /\ \E failed \in BOOLEAN, labels \in LabelsOf(sub.image) :
        /\ sub' = [sub EXCEPT !.is_labrador = is_labrador(failed, labels),
                               !.confidence = labrador_conf(failed, labels),
                               !.failed = failed,
                               !.labels = IF failed THEN {} ELSE labels]
        /\ IF ~is_labrador(failed, labels)
           THEN Respond(400, "Image is not a Labrador Retriever")
           ELSE cpc' = "upload" /\ UNCHANGED reply
    /\ UNCHANGED <<s3, dog_table, submitted, validation_results, cleaned_data, aggDone>>
    /\ UNCHANGED <<valVars, engVars, logVars, brVars>>

\* one `s3_client.upload_fileobj(...)`: the object is stored, or the call raises
Upload ==
    /\ cpc = "upload"
    /\ LET n == Cardinality(ObjectsOf(sub.dog_id))
       IN  \/ /\ s3' = s3 \cup {[dog_id |-> sub.dog_id, key |-> UploadKeys[n + 1]]}
              /\ cpc' = (IF n + 1 = Len(UploadKeys) THEN "insert" ELSE "upload")
              /\ UNCHANGED reply
           \/ /\ Respond(500, "S3 error")
              /\ UNCHANGED s3
    /\ UNCHANGED <<sub, dog_table, submitted, validation_results, cleaned_data, aggDone>>
    /\ UNCHANGED <<valVars, engVars, logVars, brVars>>

\* `cleaned_data.get('species')` of `{k: v ... if v is not None and v != ''}`
StoredSpecies(species) == IF species = PyStr(<<>>) THEN None ELSE species

\* `db.add(dog)` and `db.commit()`: the row is stored, or the commit raises
InsertDog ==
    /\ cpc = "insert"
    /\ \/ /\ dog_table' = dog_table \cup
                {[dog_id |-> sub.dog_id, species |-> StoredSpecies(sub.species)]}
          /\ Respond(200, "")
       \/ /\ Respond(500, "database error")
          /\ UNCHANGED dog_table
    /\ UNCHANGED <<sub, s3, submitted, validation_results, cleaned_data, aggDone>>
    /\ UNCHANGED <<valVars, engVars, logVars, brVars>>

\* no submission is handled
AdmIdle ==
    /\ sub = NoSubmission
    /\ cpc = "idle"
    /\ s3 = {}
    /\ dog_table = {}
    /\ reply = NoReply
    /\ submitted = 0

CreateNext ==
    \/ Submit
    \/ ValidateData
    \/ ExtractDocument
    \/ CheckSpecies
    \/ OpenImage
    \/ ClassifyImage
    \/ Upload
    \/ InsertDog

----------------------------------------------------------------------------
(* log_validation_results *)

\* the keys in the order `validation_results.items()` yields them: the ten
\* fields as the batch validator inserts them, then any other key
KeySeq ==
    BatchFieldSeq \o <<ExtraKey, "date", "breed", "text">>

ItemsOf(vrs) ==
    LET Held(k) == k \in DOMAIN vrs
    IN  SelectSeq(KeySeq, Held)

\* `result.confidence < 0.7`: the comparison of a number, and the TypeError
\* Python raises when the left side is None or a string
Below07(confidence) ==
    CASE confidence.t = "num" -> [raised |-> "", low |-> confidence.n < 70]
      [] confidence.t = "bool" -> [raised |-> "", low |-> confidence.n * 100 < 70]
      [] OTHER -> [raised |-> "TypeError", low |-> FALSE]

\* the lines one field adds before the comparison: one per warning, and the
\* error line when `not result.is_valid`
LinesBefore(field, result) ==
    [i \in 1..Len(result.warnings) |-> [field |-> field, level |-> "info", what |-> "warning"]]
        \o (IF ~Truthy(result.is_valid)
            THEN <<[field |-> field, level |-> "warning", what |-> "error"]>>
            ELSE <<>>)

\* the loop over the items from the i-th on: the lines logged, and the
\* exception that ended the loop ("" when it ran to its end)
RECURSIVE LogLoop(_, _, _, _)
LogLoop(vrs, order, i, lines) ==
    IF i > Len(order) THEN [raised |-> "", lines |-> lines]
    ELSE LET field == order[i]
             cmp == Below07(vrs[field].confidence)
             sofar == lines \o LinesBefore(field, vrs[field])
         IN  IF cmp.raised # "" THEN [raised |-> cmp.raised, lines |-> sofar]
             ELSE LogLoop(vrs, order, i + 1,
                          IF cmp.low
                          THEN Append(sofar, [field |-> field, level |-> "warning",
                                              what |-> "low_confidence"])
                          ELSE sofar)

log_validation_results(vrs) == LogLoop(vrs, ItemsOf(vrs), 1, <<>>)

NoLog == [ran |-> FALSE, raised |-> "", lines |-> <<>>]

\* what a field validator returns to its caller, for every argument, every way
\* the wrapper's call ends and every reply
FieldReturns ==
    {FieldReturn(kind, x, err, resp) :
        kind \in FieldKinds, x \in RawInputs \ {None}, err \in {""} \cup WrapperErrors,
        resp \in FieldResponses}

\* what the batch validator returns to its caller
BatchReturns ==
    {BatchReturn(d, err, resp) :
        d \in BatchInputs, err \in {""} \cup WrapperErrors, resp \in BatchResponses}

\* the result sets the validators hand over
LogInputs ==
    {ret.results : ret \in {r \in FieldReturns \cup BatchReturns : r.escaped = ""}}
        \cup {(kind :> NullResult) : kind \in FieldKinds}

LogValidationResults ==
    /\ ~logged.ran
    /\ logged' = [ran |-> TRUE,
                  raised |-> log_validation_results(validation_results).raised,
                  lines |-> log_validation_results(validation_results).lines]
    /\ UNCHANGED <<valVars, aggVars, engVars, admVars, brVars>>

LogIdle == logged = NoLog

----------------------------------------------------------------------------
(* Authentication (dependencies.py) and the breed endpoints *)

\* how many requests reach the authenticated endpoints
MaxGateRequests == 2

SecondDog == "d2"

BreedNames == {"Labrador", "Mix"}

\* the ids a request may name: two the table may hold, one it never holds
BreedIds == {1, 2, 9}

\* what the Authorization header carries: nothing at all, the scheme with no
\* token, the text "null", text that is no JWT, a JWT signed with a key the
\* pool does not publish, one whose signature does not verify, a valid access
\* token, and valid ID tokens of two users
Credentials ==
    {"absent", "empty", "null", "garbage", "unknown_kid", "bad_signature", "access",
     "id:u1", "id:u2"}

IdTokens == {"id:u1", "id:u2"}

SubOf(token) == IF token = "id:u1" THEN "u1" ELSE "u2"

\* the statuses with which fastapi.security.HTTPBearer (auto_error on) answers
\* a request without credentials: 403 in the releases up to 0.121, 401 since
BearerStatuses == {401, 403}

\* bearer_scheme: the header must be there, with a scheme and a token
HTTPBearer(credential, missing) ==
    IF credential \in {"absent", "empty"} THEN missing ELSE 200

\* verify_jwt: every failure, the HTTPExceptions raised inside the try too,
\* ends in an HTTPException 401; an ID token yields its payload
verify_jwt(token) ==
    IF token \in IdTokens THEN [status |-> 200, sub |-> SubOf(token)]
    ELSE [status |-> 401, sub |-> NoSub]

\* get_current_user, behind Depends(bearer_scheme)
get_current_user(credential, missing) ==
    IF HTTPBearer(credential, missing) # 200
    THEN [status |-> HTTPBearer(credential, missing), sub |-> NoSub]
    ELSE IF credential = "null" THEN [status |-> 401, sub |-> NoSub]
    ELSE verify_jwt(credential)

BreedEndpoints == {"create_breed", "delete_breed"}

NoGate ==
    [endpoint |-> "", credential |-> "", id |-> 0, name |-> "", dog_id |-> "",
     pc |-> "idle", status |-> 0, nulled |-> {}]

\* a delete that takes the dogs of the breed with it
AfterBreedDelete_Cascade(refs, id) ==
    [d \in {e \in DOMAIN refs : refs[e] # PyNum(id)} |-> refs[d]]

\* `db.delete(breed)` with the relationship Breed.dogs and no cascade: the
\* session sets dogs.breed_id to NULL for the dogs of the breed
AfterBreedDelete(refs, id) ==
    [d \in DOMAIN refs |-> IF refs[d] = PyNum(id) THEN None ELSE refs[d]]

\* a request reaches an authenticated endpoint
Request ==
    /\ gate.pc \in {"idle", "done"}
    /\ InFlight = {}
    /\ budget > 0
    /\ budget' = budget - 1
    /\ \E credential \in Credentials :
        \/ \E name \in BreedNames :
            gate' = [NoGate EXCEPT !.endpoint = "create_breed", !.credential = credential,
                                   !.name = name, !.pc = "auth"]
        \/ \E id \in BreedIds :
            gate' = [NoGate EXCEPT !.endpoint = "delete_breed", !.credential = credential,
                                   !.id = id, !.pc = "auth"]
        \/ \E kind \in EngageKinds, dog_id \in DogIds :
            gate' = [NoGate EXCEPT !.endpoint = kind, !.credential = credential,
                                   !.dog_id = dog_id, !.pc = "auth"]
    /\ UNCHANGED <<breeds, breed_id, bearer>>
    /\ UNCHANGED <<dogs, user_wags, nextId, reqs, limit, last>>
    /\ UNCHANGED <<valVars, aggVars, admVars, logVars>>

\* Depends(get_current_user): the HTTPException ends the request, otherwise
\* the endpoint's function is called with the payload as `user`
Authenticate ==
    /\ gate.pc = "auth"
    /\ LET user == get_current_user(gate.credential, bearer)
       IN  IF user.status # 200
           THEN /\ gate' = [gate EXCEPT !.pc = "done", !.status = user.status]
                /\ UNCHANGED reqs
           ELSE IF gate.endpoint \in BreedEndpoints
           THEN /\ gate' = [gate EXCEPT !.pc = "handler"]
                /\ UNCHANGED reqs
           ELSE /\ gate' = [gate EXCEPT !.pc = "done", !.status = 200]
                /\ reqs' = [reqs EXCEPT ![1] = NewReq(gate.endpoint, user.sub, gate.dog_id)]
    /\ UNCHANGED <<breeds, breed_id, bearer>>
    /\ UNCHANGED <<dogs, user_wags, nextId, limit, budget, last>>
    /\ UNCHANGED <<valVars, aggVars, admVars, logVars>>

\* create_breed: the row is added; a name the table holds already breaks the
\* unique constraint at the commit
CreateBreed ==
    /\ gate.pc = "handler"
    /\ gate.endpoint = "create_breed"
    /\ IF \E row \in breeds.rows : row.name = gate.name
       THEN /\ gate' = [gate EXCEPT !.pc = "done", !.status = 500]
            /\ UNCHANGED breeds
       ELSE /\ breeds' = [rows |-> breeds.rows \cup {[id |-> breeds.next, name |-> gate.name]},
                          next |-> breeds.next + 1]
            /\ gate' = [gate EXCEPT !.pc = "done", !.status = 200]
    /\ UNCHANGED <<breed_id, bearer>>
    /\ UNCHANGED <<engVars, valVars, aggVars, admVars, logVars>>

\* delete_breed: 404 when no breed has the id, otherwise the breed goes
DeleteBreed ==
    /\ gate.pc = "handler"
    /\ gate.endpoint = "delete_breed"
    /\ IF ~\E row \in breeds.rows : row.id = gate.id
       THEN /\ gate' = [gate EXCEPT !.pc = "done", !.status = 404]
            /\ UNCHANGED <<breeds, breed_id>>
       ELSE /\ breeds' = [breeds EXCEPT !.rows = {row \in breeds.rows : row.id # gate.id}]
            /\ breed_id' = AfterBreedDelete(breed_id, gate.id)
            /\ gate' = [gate EXCEPT !.pc = "done", !.status = 200,
                                     !.nulled = {d \in DOMAIN breed_id :
                                                    breed_id[d] = PyNum(gate.id)}]
    /\ UNCHANGED bearer
    /\ UNCHANGED <<engVars, valVars, aggVars, admVars, logVars>>

NoBreeds == [rows |-> {}, next |-> 1]

\* no request is at an authenticated endpoint
BreedIdle ==
    /\ breeds = NoBreeds
    /\ breed_id = (StoredDog :> None)
    /\ gate = NoGate
    /\ bearer = 401

\* the tables a run starts from: two breeds, one of them or both, or none, and
\* two dogs that refer to a breed of the table or to none
StoredBreeds ==
    {[rows |-> {[id |-> i, name |-> IF i = 1 THEN "Labrador" ELSE "Mix"] : i \in ids},
      next |-> 3] : ids \in SUBSET {1, 2}}

BreedNext ==
    \/ Request
    \/ Authenticate
    \/ CreateBreed
    \/ DeleteBreed
    \/ \E i \in Slots : LoadDog(i) \/ QueryRow(i) \/ Commit(i)

----------------------------------------------------------------------------
(* The specifications *)

Idle ==
    /\ op = "idle"
    /\ pc = "idle"
    /\ input = None
    /\ data = NoData
    /\ max_retries = DefaultMaxRetries
    /\ attempt = 0
    /\ calls = 0
    /\ wrapperCalls = 0
    /\ sleeps = <<>>
    /\ trace = <<>>
    /\ response = NoResponse
    /\ error = ""
    /\ results = NoResults
    /\ escaped = ""

Init ==
    /\ Idle
    /\ validation_results = NoResults
    /\ cleaned_data = NoData
    /\ aggDone = FALSE
    /\ EngIdle
    /\ AdmIdle
    /\ LogIdle
    /\ BreedIdle

\* the operation is over (the wrapper's own caller has its reply or its exception)
Finished == pc = "done" \/ (op = "wrapper" /\ pc \in {"returned", "raised"})

\* the next request starts from scratch
Reset ==
    /\ Finished
    /\ op' = "idle"
    /\ pc' = "idle"
    /\ input' = None
    /\ data' = NoData
    /\ max_retries' = DefaultMaxRetries
    /\ attempt' = 0
    /\ calls' = 0
    /\ wrapperCalls' = 0
    /\ sleeps' = <<>>
    /\ trace' = <<>>
    /\ response' = NoResponse
    /\ error' = ""
    /\ results' = NoResults
    /\ escaped' = ""
    /\ UNCHANGED nonValVars

Next ==
    \/ StartWrapper
    \/ StartField
    \/ StartBatch
    \/ Invoke
    \/ Sleep
    \/ Exhaust
    \/ FinishField
    \/ FinishBatch
    \/ Reset

Spec == Init /\ [][Next]_vars

\* get_cleaned_data applied to every mapping of the bounded family
InitAgg ==
    /\ Idle
    /\ validation_results \in AggInputs
    /\ cleaned_data = NoData
    /\ aggDone = FALSE
    /\ EngIdle
    /\ AdmIdle
    /\ LogIdle
    /\ BreedIdle

NextAgg == GetCleanedData

SpecAgg == InitAgg /\ [][NextAgg]_vars

\* the four handlers, one request at a time, on a table in which each caller
\* has at most one row on the dog; the counters start anywhere concurrent
\* requests may have left them
InitEngageSeq ==
    /\ Idle
    /\ validation_results = NoResults
    /\ cleaned_data = NoData
    /\ aggDone = FALSE
    /\ \E choice \in [Subs -> {"none", "wag", "growl"}] :
        /\ user_wags = StoredRows(choice)
        /\ nextId = Cardinality(StoredRows(choice)) + 1
    /\ \E w \in 0..MaxStoredCount, g \in 0..MaxStoredCount :
        dogs = (StoredDog :> [wags |-> w, growls |-> g])
    /\ reqs = NoReqs
    /\ limit = 1
    /\ budget = MaxSeqRequests
    /\ last = NoLast
    /\ AdmIdle
    /\ LogIdle
    /\ BreedIdle

SpecEngageSeq == InitEngageSeq /\ [][EngNext]_vars

\* the four handlers on a fresh dog, two requests at a time
InitEngageConc ==
    /\ Idle
    /\ validation_results = NoResults
    /\ cleaned_data = NoData
    /\ aggDone = FALSE
    /\ dogs = (StoredDog :> [wags |-> 0, growls |-> 0])
    /\ user_wags = {}
    /\ nextId = 1
    /\ reqs = NoReqs
    /\ limit = 2
    /\ budget = MaxConcRequests
    /\ last = NoLast
    /\ AdmIdle
    /\ LogIdle
    /\ BreedIdle

SpecEngageConc == InitEngageConc /\ [][EngNext]_vars

\* the four handlers on a fresh dog, one request at a time
InitEngageClean ==
    /\ Idle
    /\ validation_results = NoResults
    /\ cleaned_data = NoData
    /\ aggDone = FALSE
    /\ dogs = (StoredDog :> [wags |-> 0, growls |-> 0])
    /\ user_wags = {}
    /\ nextId = 1
    /\ reqs = NoReqs
    /\ limit = 1
    /\ budget = MaxSeqRequests
    /\ last = NoLast
    /\ AdmIdle
    /\ LogIdle
    /\ BreedIdle

SpecEngageClean == InitEngageClean /\ [][EngNext]_vars

\* the create endpoints and the validation endpoint, one submission at a time
InitCreate ==
    /\ Idle
    /\ validation_results = NoResults
    /\ cleaned_data = NoData
    /\ aggDone = FALSE
    /\ EngIdle
    /\ AdmIdle
    /\ LogIdle
    /\ BreedIdle

SpecCreate == InitCreate /\ [][CreateNext]_vars

\* log_validation_results applied to every result set the validators hand over
InitLog ==
    /\ Idle
    /\ validation_results \in LogInputs
    /\ cleaned_data = NoData
    /\ aggDone = FALSE
    /\ EngIdle
    /\ AdmIdle
    /\ LogIdle
    /\ BreedIdle

NextLog == LogValidationResults

SpecLog == InitLog /\ [][NextLog]_vars

\* the authenticated endpoints, one request at a time, under either release
\* of the framework
InitBreeds ==
    /\ Idle
    /\ validation_results = NoResults
    /\ cleaned_data = NoData
    /\ aggDone = FALSE
    /\ dogs = [d \in {StoredDog, SecondDog} |-> [wags |-> 0, growls |-> 0]]
    /\ user_wags = {}
    /\ nextId = 1
    /\ reqs = NoReqs
    /\ limit = 1
    /\ budget = MaxGateRequests
    /\ last = NoLast
    /\ AdmIdle
    /\ LogIdle
    /\ breeds \in StoredBreeds
    /\ breed_id \in {refs \in [{StoredDog, SecondDog} -> {None, PyNum(1), PyNum(2)}] :
                        \A d \in DOMAIN refs :
                            refs[d] # None => \E row \in breeds.rows : PyNum(row.id) = refs[d]}
    /\ gate = NoGate
    /\ bearer \in BearerStatuses

SpecBreeds == InitBreeds /\ [][BreedNext]_vars

----------------------------------------------------------------------------
(* Properties of the validation layer *)

Last(seq) == seq[Len(seq)]

AllThrottled(t, n) == \A i \in 1..n : t[i] = "ThrottlingException"

OtherErrors == {"ClientError", "JSONDecodeError"}

\* C1: a field validator given a null input returns is_valid=true, value=null,
\* confidence=1.0 at once, without a call to the wrapper or to the external model.
C1_NullShortCircuits ==
    (op \in FieldKinds /\ input = None) =>
        /\ pc = "done"
        /\ escaped = ""
        /\ DOMAIN results = {op}
        /\ results[op].is_valid = PyBool(TRUE)
        /\ results[op].value = None
        /\ results[op].confidence = PyNum(100)
        /\ wrapperCalls = 0
        /\ calls = 0
        /\ trace = <<>>

C1_Witness ==
    /\ op = "breed"
    /\ input = None
    /\ pc = "done"
    /\ results["breed"].is_valid = PyBool(TRUE)

\* the outcomes C2 lists: the wrapper raised (transport error, throttling
\* exhausted), the reply has no content, the text is not JSON, or is JSON but no object
C2_Failure ==
    \/ error # ""
    \/ response.shape \in {"no_content", "empty_content"}
    \/ response.doc.t # "dict"

\* C2: a field validator given a non-null input never raises; when the call
\* failed, the reply has no content, is not JSON or is no JSON object, it returns
\* is_valid=false, value=null and a non-null error_message.
C2_FieldValidatorNeverRaises ==
    (op \in FieldKinds /\ input # None /\ pc = "done") =>
        /\ escaped = ""
        /\ DOMAIN results = {op}
        /\ C2_Failure =>
            /\ results[op].is_valid = PyBool(FALSE)
            /\ results[op].value = None
            /\ results[op].error_message # None

C2_Witness ==
    /\ op = "weight"
    /\ pc = "done"
    /\ input = PyNum(32)
    /\ response.shape = "ok"
    /\ ~response.fence
    /\ response.doc.t = "list"
    /\ results["weight"].error_message = PyStr(<<"Bedrock parsing failed: ", "AttributeError">>)

\* C3: when the service throttles the first N attempts (N < max_retries) and then
\* succeeds, the wrapper returns the reply after exactly N+1 calls: a success is
\* returned by the call that got it, and the wrapper gives up on throttling only
\* after max_retries throttled attempts, never while an attempt is left.
C3_SuccessAfterThrottling ==
    /\ (trace # <<>> /\ Last(trace) = "ok") =>
        /\ AllThrottled(trace, Len(trace) - 1)
        /\ Len(trace) <= max_retries
        /\ calls = Len(trace)
        /\ pc \in {"returned", "done"}
        /\ response.shape # "none"
        /\ error = ""
    /\ (pc = "loop" /\ attempt < max_retries) => ENABLED Invoke
    /\ (error = MaxRetriesExceeded) => Len(trace) >= max_retries

C3_Witness ==
    /\ op = "wrapper"
    /\ pc = "returned"
    /\ max_retries = 5
    /\ calls = 5
    /\ AllThrottled(trace, 4)
    /\ trace[5] = "ok"
    /\ response.shape = "ok"

\* C4: an attempt that fails with an error other than throttling ends the
\* wrapper at once with that error: the failed call is the last call, no sleep
\* follows it, however many throttled attempts came before.
C4_OtherErrorPropagates ==
    /\ [](trace # <<>> /\ Last(trace) \in OtherErrors =>
            /\ pc \in {"raised", "done"}
            /\ error = Last(trace)
            /\ calls = Len(trace)
            /\ Len(sleeps) = Len(trace) - 1
            /\ AllThrottled(trace, Len(trace) - 1))
    /\ [][(trace # <<>> /\ Last(trace) \in OtherErrors) =>
            (op' = "idle" \/ (calls' = calls /\ sleeps' = sleeps /\ trace' = trace))]_vars

C4_Witness ==
    /\ pc = "raised"
    /\ error = "ClientError"
    /\ trace = <<"ThrottlingException", "ThrottlingException", "ClientError">>
    /\ Len(sleeps) = 2

\* C5: when every attempt is throttled the wrapper ends after exactly
\* max_retries calls (5 by default) with the throttling-exceeded error: it never
\* makes more than max_retries calls, never returns a reply, and every step on
\* the way is followed by another until the error is raised.
C5_ExhaustionTerminates ==
    /\ calls <= max_retries
    /\ attempt <= max_retries
    /\ (op # "idle" /\ AllThrottled(trace, Len(trace)) /\ Len(trace) = max_retries) =>
        /\ pc \in {"sleep", "loop", "raised", "done"}
        /\ response = NoResponse
        /\ calls = max_retries
        /\ pc = "sleep" => ENABLED Sleep
        /\ pc = "loop" => (ENABLED Exhaust /\ ~ENABLED Invoke)
        /\ pc \in {"raised", "done"} => error = MaxRetriesExceeded
    /\ (error = MaxRetriesExceeded) =>
        (calls = max_retries /\ AllThrottled(trace, Len(trace)))
    /\ (op \in FieldKinds \cup {"batch"}) => max_retries = 5

C5_Witness ==
    /\ op = "state"
    /\ pc = "raised"
    /\ error = MaxRetriesExceeded
    /\ calls = 5
    /\ AllThrottled(trace, 5)

\* C6: the sleep after the throttled attempt of zero-based index k lasts
\* 0.5 * 2^k seconds: 500, 1000, 2000, 4000, 8000 ms, each twice the one before,
\* so the delays strictly increase.
C6_BackoffDelays ==
    /\ \A i \in 1..Len(sleeps) :
        /\ i = 1 => sleeps[i] = 500
        /\ i > 1 => (sleeps[i] = 2 * sleeps[i - 1] /\ sleeps[i] > sleeps[i - 1])
        /\ trace[i] = "ThrottlingException"
    /\ Len(sleeps) >= 5 => SubSeq(sleeps, 1, 5) = <<500, 1000, 2000, 4000, 8000>>

C6_Witness ==
    /\ max_retries = 5
    /\ sleeps = <<500, 1000, 2000, 4000, 8000>>

\* C7: every backoff sleep is followed by another attempt, so a call whose
\* max_retries attempts are all throttled sleeps exactly max_retries - 1 times
\* and fails without sleeping after the last attempt.
C7_NoSleepAfterLastAttempt ==
    (error = MaxRetriesExceeded /\ max_retries > 0) =>
        /\ Len(sleeps) = max_retries - 1
        /\ Len(sleeps) < calls

\* C8: a batch validator invocation makes exactly one wrapper call, whatever the
\* record holds and however the call ends.
C8_BatchOneWrapperCall ==
    (op = "batch") => wrapperCalls = 1

C8_Witness ==
    /\ op = "batch"
    /\ pc = "done"
    /\ DOMAIN data = {}
    /\ wrapperCalls = 1
    /\ error = "ClientError"

\* the batch's failures: the wrapper raised, the reply has no content, the text
\* is not a JSON object, or some field's sub-result is not an object
C9_Failure ==
    \/ error # ""
    \/ response.shape \in {"no_content", "empty_content"}
    \/ response.doc.t # "dict"
    \/ \E f \in BatchFields : response.doc.fields[f].t \in {"none", "str", "list", "num"}

\* C9: when the batch's call fails or its reply cannot be parsed (a sub-result
\* that is no object included), every field of the record comes back with
\* is_valid=false, value=null and one shared non-null error_message: nothing of
\* the reply is in the result.
C9_BatchAllOrNothing ==
    (op = "batch" /\ pc = "done" /\ C9_Failure) =>
        /\ escaped = ""
        /\ DOMAIN results = DOMAIN data
        /\ \A f \in DOMAIN results :
            /\ results[f].is_valid = PyBool(FALSE)
            /\ results[f].value = None
            /\ results[f].error_message # None
            /\ results[f].warnings = <<>>
            /\ results[f].confidence = PyNum(0)
            /\ \A g \in DOMAIN results : results[g].error_message = results[f].error_message

C9_Witness ==
    /\ op = "batch"
    /\ pc = "done"
    /\ error = ""
    /\ response.shape = "ok"
    /\ ~response.fence
    /\ response.doc.t = "dict"
    /\ response.doc.fields["species"].t = "str"
    /\ response.doc.fields["name"].value = PyStr(<<"L", "a", "b">>)
    /\ response.doc.fields["name"].is_valid = PyBool(TRUE)
    /\ DOMAIN data = BatchFields
    /\ data["name"] = None
    /\ results["name"].is_valid = PyBool(FALSE)

\* C10: get_cleaned_data returns exactly the fields whose result has
\* is_valid=true and a non-null value, each mapped to that value, and no other key.
C10_CleanedData ==
    aggDone =>
        /\ DOMAIN cleaned_data =
            {f \in DOMAIN validation_results :
                /\ validation_results[f].is_valid = PyBool(TRUE)
                /\ validation_results[f].value # None}
        /\ \A f \in DOMAIN cleaned_data : cleaned_data[f] = validation_results[f].value

C10_Witness ==
    /\ aggDone
    /\ DOMAIN validation_results = {"name", "shelter_name", "city"}
    /\ validation_results["name"].is_valid = PyBool(TRUE)
    /\ validation_results["name"].value = PyNum(0)
    /\ validation_results["shelter_name"].is_valid = PyBool(FALSE)
    /\ validation_results["shelter_name"].value = PyStr(<<"L", "a", "b">>)
    /\ validation_results["city"].is_valid = PyBool(TRUE)
    /\ validation_results["city"].value = None
    /\ DOMAIN cleaned_data = {"name"}
    /\ cleaned_data["name"] = PyNum(0)

\* the response with the code-fence markers taken off its text
Unfenced(resp) == [resp EXCEPT !.fence = FALSE]

\* C18: a reply whose JSON object is wrapped in Markdown code-fence markers
\* yields the same results as the same reply without the fence, and is never
\* reported as a failure to parse.
C18_FenceTolerated ==
    (pc = "done" /\ error = "" /\ response.shape = "ok" /\ response.fence
        /\ response.doc.t = "dict") =>
        /\ op \in FieldKinds =>
            results = FieldReturn(op, input, "", Unfenced(response)).results
        /\ op = "batch" =>
            results = BatchReturn(data, "", Unfenced(response)).results

\* C19: every ValidationResult a validator returns whose original_value is null
\* has is_valid=true, value=null and confidence=1.0.
C19_NullOriginalIsValid ==
    (pc = "done" /\ op \in FieldKinds \cup {"batch"}) =>
        \A f \in DOMAIN results :
            results[f].original_value = None =>
                /\ results[f].is_valid = PyBool(TRUE)
                /\ results[f].value = None
                /\ results[f].confidence = PyNum(100)

\* C20: a ValidationResult's original_value is the raw input as the validator
\* received it, not stringified and not trimmed, on success and on failure.
C20_OriginalValueIsRaw ==
    /\ (pc = "done" /\ op \in FieldKinds) =>
        \A f \in DOMAIN results : results[f].original_value = input
    /\ (pc = "done" /\ op = "batch") =>
        \A f \in DOMAIN results : results[f].original_value = DataGet(data, f)

----------------------------------------------------------------------------
(* Properties of the engagement handlers *)

RowsOf(user_id, dog_id) == {r \in user_wags : r.user_id = user_id /\ r.dog_id = dog_id}

\* the state of a pair: wagged, growled or none
PairState(rows, user_id, dog_id) ==
    IF \E r \in rows : r.user_id = user_id /\ r.dog_id = dog_id /\ r.type = "wag"
    THEN "wagged"
    ELSE IF \E r \in rows : r.user_id = user_id /\ r.dog_id = dog_id /\ r.type = "growl"
    THEN "growled"
    ELSE "none"

\* this step ends the request of slot i
Completes(i) == reqs[i].pc \in {"dog", "query", "write"} /\ reqs'[i].pc = "done"

\* this step ends a request of the kind, by a caller with a `sub`, on the stored dog
CompletesKind(i, kind) ==
    /\ Completes(i)
    /\ reqs[i].kind = kind
    /\ reqs[i].user_id \in Subs
    /\ reqs[i].dog_id = StoredDog

Succeeded(rec, kind, user_id, dog_id) ==
    rec.kind = kind /\ rec.user_id = user_id /\ rec.dog_id = dog_id /\ rec.status = 200

\* C12: with requests handled one at a time, every pair of a caller and a dog
\* has at most one engagement row after any sequence of wag, growl, unwag and
\* ungrowl requests.
C12_OneRowPerPair ==
    \A user_id \in Callers, dog_id \in DogIds : Cardinality(RowsOf(user_id, dog_id)) <= 1

C12_Witness ==
    /\ reqs[1].pc = "done"
    /\ reqs[1].kind = "growl"
    /\ reqs[1].user_id = "u1"
    /\ reqs[1].status = 400
    /\ reqs[1].detail = "already wag, cannot growl"
    /\ Succeeded(last[2], "wag", "u1", StoredDog)
    /\ Cardinality(RowsOf("u1", StoredDog)) = 1

\* C13: with wag and growl requests of one caller on one dog handled
\* concurrently, no two engagement rows of that pair are ever in the table.
C13_ConcurrentUniqueness ==
    \A r1 \in user_wags, r2 \in user_wags :
        (r1.user_id = r2.user_id /\ r1.dog_id = r2.dog_id) => r1.id = r2.id

\* C14: a wag by a caller who has wagged the dog, and a growl by one who has
\* growled at it, ends with 400 and leaves both counters and the rows as they were.
C14_RepeatRefused ==
    [][\A i \in Slots :
        /\ (CompletesKind(i, "wag")
                /\ PairState(user_wags, reqs[i].user_id, reqs[i].dog_id) = "wagged") =>
            (reqs'[i].status = 400 /\ dogs' = dogs /\ user_wags' = user_wags)
        /\ (CompletesKind(i, "growl")
                /\ PairState(user_wags, reqs[i].user_id, reqs[i].dog_id) = "growled") =>
            (reqs'[i].status = 400 /\ dogs' = dogs /\ user_wags' = user_wags)]_vars

C14_Witness ==
    /\ reqs[1].pc = "done"
    /\ reqs[1].kind = "wag"
    /\ reqs[1].user_id = "u1"
    /\ reqs[1].status = 400
    /\ reqs[1].detail = "already wag"
    /\ Succeeded(last[2], "wag", "u1", StoredDog)
    /\ dogs[StoredDog].wags = last[2].wags + 1

\* C15: a wag and then an unwag by the same caller leave the wags counter at its
\* value before the wag and the pair in state none, and a wag by that caller
\* right after the unwag succeeds; likewise for growl and ungrowl.
C15_UndoRestores ==
    /\ [](\A user_id \in Subs :
            /\ (Succeeded(last[1], "unwag", user_id, StoredDog)
                    /\ Succeeded(last[2], "wag", user_id, StoredDog)) =>
                /\ dogs[StoredDog].wags = last[2].wags
                /\ PairState(user_wags, user_id, StoredDog) = "none"
            /\ (Succeeded(last[1], "ungrowl", user_id, StoredDog)
                    /\ Succeeded(last[2], "growl", user_id, StoredDog)) =>
                /\ dogs[StoredDog].growls = last[2].growls
                /\ PairState(user_wags, user_id, StoredDog) = "none")
    /\ [][\A i \in Slots :
            /\ (CompletesKind(i, "wag")
                    /\ Succeeded(last[1], "unwag", reqs[i].user_id, StoredDog)
                    /\ Succeeded(last[2], "wag", reqs[i].user_id, StoredDog)) =>
                reqs'[i].status = 200
            /\ (CompletesKind(i, "growl")
                    /\ Succeeded(last[1], "ungrowl", reqs[i].user_id, StoredDog)
                    /\ Succeeded(last[2], "growl", reqs[i].user_id, StoredDog)) =>
                reqs'[i].status = 200]_vars

C15_Witness ==
    /\ Succeeded(last[1], "unwag", "u2", StoredDog)
    /\ Succeeded(last[2], "wag", "u2", StoredDog)
    /\ dogs[StoredDog].wags = last[2].wags
    /\ PairState(user_wags, "u2", StoredDog) = "none"
    /\ reqs[1].kind = "wag"
    /\ reqs[1].user_id = "u2"
    /\ reqs[1].dog_id = StoredDog
    /\ reqs[1].pc = "write"

\* C16: a growl by a caller whose state on the dog is wagged, and a wag by one
\* whose state is growled, ends with 400 and changes no counter and no row; no
\* step takes a pair from wagged to growled or from growled to wagged.
C16_NoDirectSwitch ==
    [][/\ \A i \in Slots :
            /\ (CompletesKind(i, "growl")
                    /\ PairState(user_wags, reqs[i].user_id, reqs[i].dog_id) = "wagged") =>
                (reqs'[i].status = 400 /\ dogs' = dogs /\ user_wags' = user_wags)
            /\ (CompletesKind(i, "wag")
                    /\ PairState(user_wags, reqs[i].user_id, reqs[i].dog_id) = "growled") =>
                (reqs'[i].status = 400 /\ dogs' = dogs /\ user_wags' = user_wags)
       /\ \A user_id \in Subs :
            /\ PairState(user_wags, user_id, StoredDog) = "wagged" =>
                PairState(user_wags', user_id, StoredDog) # "growled"
            /\ PairState(user_wags, user_id, StoredDog) = "growled" =>
                PairState(user_wags', user_id, StoredDog) # "wagged"]_vars

C16_Witness ==
    /\ reqs[1].pc = "done"
    /\ reqs[1].kind = "wag"
    /\ reqs[1].user_id = "u2"
    /\ reqs[1].status = 400
    /\ reqs[1].detail = "already growl, cannot wag"
    /\ PairState(user_wags, "u2", StoredDog) = "growled"

\* C17: neither counter is ever negative: a successful wag or growl adds exactly
\* 1 to its counter, a successful unwag or ungrowl takes exactly 1 from it, or
\* leaves it at 0 when it is 0 already, and the other counter stays as it is.
C17_CountersFloored ==
    /\ [](\A dog_id \in DOMAIN dogs : dogs[dog_id].wags >= 0 /\ dogs[dog_id].growls >= 0)
    /\ [][\A i \in Slots :
            (Completes(i) /\ reqs'[i].status = 200) =>
                LET before == dogs[reqs[i].dog_id]
                    after == dogs'[reqs[i].dog_id]
                IN  /\ reqs[i].kind = "wag" =>
                        (after.wags = before.wags + 1 /\ after.growls = before.growls)
                    /\ reqs[i].kind = "growl" =>
                        (after.growls = before.growls + 1 /\ after.wags = before.wags)
                    /\ reqs[i].kind = "unwag" =>
                        /\ after.wags = (IF before.wags = 0 THEN 0 ELSE before.wags - 1)
                        /\ after.growls = before.growls
                    /\ reqs[i].kind = "ungrowl" =>
                        /\ after.growls = (IF before.growls = 0 THEN 0 ELSE before.growls - 1)
                        /\ after.wags = before.wags]_vars

C17_Witness ==
    /\ Succeeded(last[1], "unwag", "u1", StoredDog)
    /\ last[1].wags = 0
    /\ dogs[StoredDog].wags = 0
    /\ Succeeded(last[2], "growl", "u2", StoredDog)
    /\ dogs[StoredDog].growls = last[2].growls + 1

----------------------------------------------------------------------------
(* Properties of the admission policy *)

\* the species text is outside the Labrador set
OutsideLabradorSet(species) ==
    /\ species.t = "str"
    /\ species.s # <<>>
    /\ \A name \in LabradorSet : Strip(Lower(species.s)) # name

\* the reply a submission gets when the admission policy rejects it
PolicyRejections == {"Invalid breed", "Image is not a Labrador Retriever"}

\* C11: a submission rejected under the admission policy (species result not
\* valid after batch validation, species text outside the Labrador set, image
\* not classified as a Labrador) ends with 400, and when it ends no object of
\* it is in the bucket and no row of it in the dogs table: the step that
\* rejects changes neither.
C11_RejectedBeforePersistence ==
    /\ []((cpc = "done" /\ reply.error \in PolicyRejections) =>
            /\ reply.status = 400
            /\ ObjectsOf(sub.dog_id) = {}
            /\ \A row \in dog_table : row.dog_id # sub.dog_id)
    /\ [][/\ (cpc = "species" /\ OutsideLabradorSet(sub.species)) =>
                (cpc' = "done" /\ reply'.status = 400 /\ reply'.error \in PolicyRejections)
          /\ (cpc = "rekognition" /\ ~sub'.is_labrador) =>
                (cpc' = "done" /\ reply'.status = 400 /\ reply'.error \in PolicyRejections)
          /\ (cpc = "validate" /\ "species" \in DOMAIN validation_results'
                /\ validation_results'["species"].is_valid = PyBool(FALSE)) =>
                (cpc' = "done" /\ reply'.status = 400 /\ reply'.error \in PolicyRejections)
          /\ (cpc' = "done" /\ reply'.error \in PolicyRejections) =>
                (s3' = s3 /\ dog_table' = dog_table)]_vars

C11_Witness ==
    /\ cpc = "done"
    /\ sub.endpoint = "create_with_image"
    /\ sub.dog_id = 2
    /\ sub.image = "other"
    /\ reply = [status |-> 400, error |-> "Image is not a Labrador Retriever"]
    /\ Cardinality(ObjectsOf(1)) = 3
    /\ ObjectsOf(2) = {}
    /\ \E row \in dog_table : row.dog_id = 1

----------------------------------------------------------------------------
(* Properties of the engagement counters *)

RowsOfType(type) == {r \in user_wags : r.dog_id = StoredDog /\ r.type = type}

\* C23: no step lowers the wags counter or the growls counter of a dog.
C23_CountersMonotone ==
    [][\A dog_id \in DOMAIN dogs :
        /\ dogs'[dog_id].wags >= dogs[dog_id].wags
        /\ dogs'[dog_id].growls >= dogs[dog_id].growls]_vars

\* C23 as the handlers have it: with requests handled one at a time a counter
\* is lowered only by the removal of its own type, by 1 and never below 0: no
\* wag or growl lowers a counter, no unwag lowers growls, no ungrowl lowers wags.
C23_OnlyRemovalLowers ==
    [][\A i \in Slots :
        Completes(i) =>
            LET before == dogs[StoredDog]
                after == dogs'[StoredDog]
            IN  /\ after.wags < before.wags =>
                    /\ reqs[i].kind = "unwag"
                    /\ reqs'[i].status = 200
                    /\ after.wags = before.wags - 1
                    /\ after.wags >= 0
                /\ after.growls < before.growls =>
                    /\ reqs[i].kind = "ungrowl"
                    /\ reqs'[i].status = 200
                    /\ after.growls = before.growls - 1
                    /\ after.growls >= 0]_vars

C23_Witness ==
    /\ Succeeded(last[1], "unwag", "u1", StoredDog)
    /\ last[1].wags = 1
    /\ dogs[StoredDog].wags = 0
    /\ dogs[StoredDog].growls = last[1].growls
    /\ reqs[1].pc = "done"

\* C25: when every wag and growl that succeeded was of a different caller and
\* no row was removed, the wags counter has grown by the number of wags and the
\* growls counter by the number of growls, whatever the interleaving.
C25_NoLostIncrement ==
    (/\ InFlight = {}
     /\ nextId = Cardinality(user_wags) + 1
     /\ \A r1 \in user_wags, r2 \in user_wags : r1.user_id = r2.user_id => r1 = r2) =>
        /\ dogs[StoredDog].wags = Cardinality(RowsOfType("wag"))
        /\ dogs[StoredDog].growls = Cardinality(RowsOfType("growl"))

\* C26: with requests handled one at a time on a dog that starts with both
\* counters 0 and no rows, the wags counter is the number of the dog's wag rows
\* and the growls counter the number of its growl rows.
C26_CountersMatchRows ==
    /\ dogs[StoredDog].wags = Cardinality({r \in user_wags : r.dog_id = StoredDog /\ r.type = "wag"})
    /\ dogs[StoredDog].growls = Cardinality({r \in user_wags : r.dog_id = StoredDog /\ r.type = "growl"})

C26_Witness ==
    /\ budget = 0
    /\ Succeeded(last[1], "unwag", "u1", StoredDog)
    /\ Succeeded(last[2], "growl", "u2", StoredDog)
    /\ dogs[StoredDog] = [wags |-> 0, growls |-> 1]
    /\ user_wags = {[id |-> 2, user_id |-> "u2", dog_id |-> StoredDog, type |-> "growl"]}

----------------------------------------------------------------------------
(* Further properties of the validation layer *)

\* C27: the batch validator returns results for exactly the ten named fields,
\* on its success path and on its failure path, whatever keys the input has.
C27_BatchKeySet ==
    (pc = "done" /\ op = "batch" /\ escaped = "") => DOMAIN results = BatchFields

----------------------------------------------------------------------------
(* Further properties of record creation *)

\* the submissions whose handler has ended
Ended == cpc = "done"

\* C28: when create_with_image, create_with_generated_image or
\* create_with_document has ended, with or without a failure, every object in
\* the bucket belongs to a dog whose row is in the dogs table.
C28_NoOrphans ==
    Ended => \A object \in s3 : \E row \in dog_table : row.dog_id = object.dog_id

\* C29: every row of the dogs table has a species the Labrador policy accepts:
\* a text that, lowered and stripped, is one of the three Labrador names.
C29_PersistedIsLabrador ==
    \A row \in dog_table :
        /\ row.species.t = "str"
        /\ Strip(Lower(row.species.s)) \in LabradorSet

\* a label of the reply names a Labrador
NamesLabrador(labels) ==
    \E label \in labels : LowerName(label.Name) \in {"labrador retriever", "labrador", "lab"}

\* C30: when the classification call fails or its reply has no Labrador label,
\* the result is is_labrador=false with confidence 0.0, and create_with_image
\* and create_with_document end with 400 with no object uploaded and no row
\* inserted for the submission.
C30_FailsClosed ==
    /\ []((Ended /\ sub.endpoint \in {"create_with_image", "create_with_document"}
                /\ reply.error = "Image is not a Labrador Retriever") =>
            /\ ObjectsOf(sub.dog_id) = {}
            /\ \A row \in dog_table : row.dog_id # sub.dog_id)
    /\ [][(cpc = "rekognition" /\ (sub'.failed \/ ~NamesLabrador(sub'.labels))) =>
            /\ sub'.is_labrador = FALSE
            /\ sub'.confidence = 0
            /\ cpc' = "done"
            /\ reply' = [status |-> 400, error |-> "Image is not a Labrador Retriever"]
            /\ s3' = s3
            /\ dog_table' = dog_table]_vars

C30_Witness ==
    /\ Ended
    /\ sub.endpoint = "create_with_document"
    /\ sub.image = "labrador"
    /\ sub.failed
    /\ ~sub.is_labrador
    /\ sub.confidence = 0
    /\ reply = [status |-> 400, error |-> "Image is not a Labrador Retriever"]
    /\ ObjectsOf(sub.dog_id) = {}

----------------------------------------------------------------------------
(* Properties of log_validation_results *)

LinesOf(field, what) ==
    SelectSeq(logged.lines, LAMBDA line : line.field = field /\ line.what = what)

\* C24: for every result set the validators return, log_validation_results
\* ends without an exception and has logged, per field, one line per warning,
\* an error line exactly when is_valid is false, and a low-confidence line
\* exactly when the confidence is below 0.7.
C24_LogCompletes ==
    logged.ran =>
        /\ logged.raised = ""
        /\ \A field \in DOMAIN validation_results :
            LET result == validation_results[field]
            IN  /\ Len(LinesOf(field, "warning")) = Len(result.warnings)
                /\ Len(LinesOf(field, "error")) =
                        (IF result.is_valid = PyBool(FALSE) THEN 1 ELSE 0)
                /\ Len(LinesOf(field, "low_confidence")) =
                        (IF result.confidence.t = "num" /\ result.confidence.n < 70
                         THEN 1 ELSE 0)

----------------------------------------------------------------------------
(* Properties of the authenticated endpoints *)

\* no credential, an empty one, the text "null", or a token that fails verification
Unauthenticated == Credentials \ IdTokens

\* C21: a request to an authenticated endpoint without a credential, with an
\* empty or "null" one, or with a token that fails verification ends with 401
\* at the dependency: the handler is not entered and no breed, dog or
\* engagement state changes.
C21_Rejected401 ==
    [][(gate.pc = "auth" /\ gate.credential \in Unauthenticated) =>
        /\ gate'.pc = "done"
        /\ gate'.status = 401
        /\ reqs' = reqs
        /\ breeds' = breeds
        /\ breed_id' = breed_id
        /\ dogs' = dogs
        /\ user_wags' = user_wags]_vars

\* C22: a delete of a breed removes that breed's row and no other, leaves the
\* set of dogs, their counters, their rows and their objects as they were, and
\* changes the breed reference of no dog but those that referred to it.
C22_DeleteBreedFrame ==
    [][(gate.pc = "handler" /\ gate.endpoint = "delete_breed" /\ gate'.status = 200) =>
        /\ breeds'.rows = {row \in breeds.rows : row.id # gate.id}
        /\ DOMAIN breed_id' = DOMAIN breed_id
        /\ \A d \in DOMAIN breed_id :
            breed_id'[d] # breed_id[d] => breed_id[d] = PyNum(gate.id)
        /\ dogs' = dogs
        /\ dog_table' = dog_table
        /\ s3' = s3
        /\ user_wags' = user_wags]_vars

C22_Witness ==
    /\ gate.endpoint = "delete_breed"
    /\ gate.pc = "done"
    /\ gate.status = 200
    /\ gate.id = 1
    /\ gate.nulled = {StoredDog}
    /\ breed_id = (StoredDog :> None) @@ (SecondDog :> PyNum(2))
    /\ breeds.rows = {[id |-> 2, name |-> "Mix"]}
    /\ DOMAIN dogs = {StoredDog, SecondDog}

====
